---- MODULE Spec2Model ----
(***************************************************************************)
(* Model of the redis-rate-limit admission engine (src/src/class.ts):       *)
(* RateLimit.limit, RateLimit.reset and the in-memory Cache, run by several *)
(* concurrent tasks of several limiter instances against one shared Redis.  *)
(*                                                                          *)
(* Every `await` of the source is a suspension point: the store processes   *)
(* the command in one step, and steps of other tasks (and the passage of    *)
(* time) interleave freely between two store commands of one call.          *)
(* Date.now() and the Redis server clock are the one variable `clock`.      *)
(***************************************************************************)
EXTENDS Integers, Sequences, FiniteSets, TLC

\* ------------------------------------------------------------------ bounds
NumTasks == 2        \* concurrent callers; each owns a RateLimit instance, all
                     \* instances share the store and the prefix
MaxWindow == 2       \* largest configured window / difference, in ms
MaxLimit == 2        \* largest configured limit
MaxCalls == 3        \* calls (limit or reset) started in one behaviour
MaxRaceCalls == 4    \* the same, in the behaviours of RaceSpec
MaxFaults == 1       \* store commands that fail in one behaviour
MaxTicks == 3        \* milliseconds that pass in one behaviour
MaxOverlapTicks == 2 \* the same, in the behaviours of overlapping calls (Spec)
StartTime == 3       \* Date.now() at the start (an offset of the epoch clock)

\* ------------------------------------------------------- program constants
DefaultWindow == 1000
DefaultLimit == 1
DefaultDifference == 0
FallbackLimit == 5

Tasks == 1..NumTasks
Instances == Tasks
Prefix == "rl"
Ids == {<<"A">>}

VARIABLES
  limiter,     \* the fields set by the constructor (the same for every instance)
  redis,       \* the shared store: key -> [val, exp, life] (exp = -1: no expiry)
  localCache,  \* per instance: Cache.cache, key -> reset timestamp
  clock,       \* current time in ms
  pc,          \* per task: the store command the task's call is waiting for
  frame,       \* per task: the locals of the call in flight
  done,        \* history: the call that returned in the latest step, if any
  hist,        \* history: what the calls so far have done (see Init)
  faults       \* store commands that have failed so far

vars == <<limiter, redis, localCache, clock, pc, frame, done, hist, faults>>

\* ------------------------------------------------------------- finite maps
EmptyMap == [k \in {} |-> 0]

Put(map, k, v) == [x \in DOMAIN map \cup {k} |-> IF x = k THEN v ELSE map[x]]

Remove(map, k) == [x \in DOMAIN map \ {k} |-> map[x]]

Max(a, b) == IF a >= b THEN a ELSE b

\* ------------------------------------------------------------- constructor
\* A destructured option: its value, or the default when the field is absent.
Option(config, field, default) ==
  IF field \in DOMAIN config THEN config[field] ELSE default

Constructor(config) ==
  LET window == Option(config, "window", DefaultWindow)
      limit == Option(config, "limit", DefaultLimit)
      difference == Option(config, "difference", DefaultDifference)
      ephemeralCache == Option(config, "ephemeralCache", TRUE)
  IN [ window |-> window,
       difference |-> IF difference > window THEN window ELSE difference,
       maxRequest |-> IF limit < 1 THEN FallbackLimit ELSE limit,
       ephemeralCache |-> ephemeralCache ]

Configs ==
  [ window : 0..MaxWindow, limit : 1..MaxLimit,
    difference : 0..MaxWindow, ephemeralCache : BOOLEAN ]

\* -------------------------------------------------------------------- keys
\* `${prefix}:${id}` and `${key}:last`; a string is the sequence of its
\* ":"-separated parts, so that concatenation is concatenation.
Key(id) == <<Prefix>> \o id

DifferenceKey(key) == key \o <<"last">>

\* ------------------------------------------------------------------- Cache
\* Faulty variants of isBlocked: one that never finds a block, one that
\* never lets a block lapse.
IsBlockedNever(cache, identifier, t) ==
  [blocked |-> FALSE, reset |-> 0, cache |-> cache]

IsBlockedForever(cache, identifier, t) ==
  LET reset == IF identifier \in DOMAIN cache THEN cache[identifier] ELSE 0
  IN IF reset = 0
     THEN [blocked |-> FALSE, reset |-> 0, cache |-> Remove(cache, identifier)]
     ELSE [blocked |-> TRUE, reset |-> reset, cache |-> cache]

IsBlocked(cache, identifier, t) ==
  LET reset == IF identifier \in DOMAIN cache THEN cache[identifier] ELSE 0
  IN IF reset = 0 \/ reset < t
     THEN [blocked |-> FALSE, reset |-> 0, cache |-> Remove(cache, identifier)]
     ELSE [blocked |-> TRUE, reset |-> reset, cache |-> cache]

\* A faulty blockUntil, which records nothing.
BlockUntilNever(cache, identifier, reset) == cache

BlockUntil(cache, identifier, reset) == Put(cache, identifier, reset)

Pop(cache, key) == Remove(cache, key)

\* ------------------------------------------------- the store's commands
\* Values are decimal strings of integers; parseInt of what INCR / SET wrote
\* is that integer, so a value is kept as the integer itself.

\* GET: nil when the key is absent.
RedisGet(db, k) ==
  IF k \in DOMAIN db THEN [nil |-> FALSE, val |-> db[k].val]
  ELSE [nil |-> TRUE, val |-> 0]

\* A faulty counter: a read and a write in place of INCR, the write of the
\* other caller lost.
RedisIncrLost(db, k, life) ==
  IF k \in DOMAIN db THEN db
  ELSE Put(db, k, [val |-> 1, exp |-> -1, life |-> life])

\* INCR: creates the key at 1 without expiry, else adds 1 and keeps the expiry.
RedisIncr(db, k, life) ==
  IF k \in DOMAIN db THEN [db EXCEPT ![k].val = @ + 1]
  ELSE Put(db, k, [val |-> 1, exp |-> -1, life |-> life])

\* SET: overwrites the value and discards any expiry.
RedisSet(db, k, v) == Put(db, k, [val |-> v, exp |-> -1, life |-> 0])

\* PEXPIRE: a timeout <= 0 deletes the key at once.
RedisPExpire(db, k, ms, t) ==
  IF k \notin DOMAIN db THEN db
  ELSE IF ms <= 0 THEN Remove(db, k)
  ELSE [db EXCEPT ![k].exp = t + ms]

\* PTTL: -2 when the key is absent, -1 when it has no expiry.
RedisPttl(db, k, t) ==
  IF k \notin DOMAIN db THEN -2
  ELSE IF db[k].exp = -1 THEN -1
  ELSE db[k].exp - t

\* A faulty reset of the counter: the record is zeroed, not deleted.
RedisDelZero(db, k) == Put(db, k, [val |-> 0, exp |-> -1, life |-> 0])

RedisDel(db, k) == Remove(db, k)

\* A key is expired once the time is greater than its expiry instant.
Expire(db, t) ==
  LET live == {k \in DOMAIN db : db[k].exp = -1 \/ t <= db[k].exp}
  IN [k \in live |-> db[k]]

\* ----------------------------------------------------------- the responses
ResetFn(inst, key) == [inst |-> inst, key |-> key]

CreateLimitResponse(inst, success, remaining, ttl, key) ==
  [ success |-> success, remaining |-> remaining, limit |-> limiter.maxRequest,
    reset |-> ResetFn(inst, key), ttl |-> ttl, key |-> key, statusCode |-> 0 ]

\* `remaining` and `ttl` are optional: a set that holds the value when given.
CreateErrorResponse(inst, error, key, statusCode, ttl, remaining) ==
  [ success |-> FALSE,
    remaining |-> IF remaining = {} THEN 0 ELSE CHOOSE r \in remaining : TRUE,
    limit |-> limiter.maxRequest,
    reset |-> ResetFn(inst, key),
    ttl |-> IF ttl = {} THEN 0 ELSE CHOOSE x \in ttl : TRUE,
    error |-> error, key |-> key,
    statusCode |-> IF statusCode = 0 THEN -2 ELSE statusCode ]

\* Faulty variants of the three tests of limit.
SuccessStrict(current) == current < limiter.maxRequest

RemainingRaw(current) == limiter.maxRequest - current

TooSoonNever(last, now) == FALSE

AnyIncrement(current) == TRUE

\* parseInt(undefined): the count of a transaction reply that holds none.
\* It stands apart from every count and every remaining.
NaN == -999

\* current <= this.maxRequest (false when current is NaN)
Success(current) == current # NaN /\ current <= limiter.maxRequest

\* Math.max(this.maxRequest - current, 0) (NaN when current is NaN)
Remaining(current) ==
  IF current = NaN THEN NaN ELSE Max(limiter.maxRequest - current, 0)

\* current === 1, in the callback of exec (false when current is NaN)
FirstIncrement(current) == current = 1

\* lastRequestTimestamp && now - parseInt(lastRequestTimestamp) < this.difference
TooSoon(last, now) == ~last.nil /\ now - last.val < limiter.difference

\* ------------------------------------------------------------------- state
IdleFrame ==
  [ op |-> "none", inst |-> 0, key |-> <<>>, now |-> 0, current |-> 0,
    ttl |-> 0, last |-> [nil |-> TRUE, val |-> 0],
    \* history of the call, read by the properties only:
    life |-> 0,              \* the counter record its INCR acted on
    fault |-> FALSE,         \* one of its store commands failed
    logged |-> FALSE,        \* it passed an error to this.logger
    expired |-> FALSE,       \* when it started the counter record was gone,
                             \* one had existed and no reset had been called
    soon |-> FALSE,          \* it started right after a limit that ran the
                             \* transaction returned, less than `difference`
                             \* after the `now` of that limit
    incremented |-> FALSE,   \* its transaction was executed
    afterReset |-> FALSE,    \* it started right after a reset of its key on
                             \* its instance returned without failure
    resetBy |-> 0,           \* the instance whose reset of its key returned
                             \* without failure right before it started
    first |-> FALSE ]        \* no call of limit for its identifier had
                             \* started before it

NoCall == [IdleFrame EXCEPT !.op = "none"] @@ [path |-> "none", resp |-> [key |-> <<>>]]

Started == hist.limits + hist.resets

Init ==
  /\ limiter \in {Constructor(c) : c \in Configs}
  /\ redis = EmptyMap
  /\ localCache = [i \in Instances |-> EmptyMap]
  /\ clock = StartTime
  /\ pc = [p \in Tasks |-> "idle"]
  /\ frame = [p \in Tasks |-> IdleFrame]
  /\ done = NoCall
  /\ hist = [ limits |-> 0,      \* calls of limit started
              resets |-> 0,      \* calls of reset started
              lives |-> 0,       \* counter records created
              issued |-> {},     \* the reset functions of the responses returned
              firstNow |-> 0,    \* `now` of the first call of limit
              cooled |-> FALSE,  \* a call was rejected for cooldown
              extended |-> FALSE, \* a PEXPIRE moved the expiry instant of a
                                 \* counter record to a later one
              tooClose |-> FALSE, \* the transaction ran for two calls in flight
                                 \* whose `now` are less than `difference` apart
              admitted |-> EmptyMap, \* per counter record: calls admitted
              seen |-> {} ]      \* keys of the calls of limit started
  /\ faults = 0

\* The call of task p returns `resp` to its caller.
Complete(p, f, path, resp, h) ==
  /\ done' = f @@ [path |-> path, resp |-> resp]
  /\ pc' = [pc EXCEPT ![p] = "idle"]
  /\ frame' = [frame EXCEPT ![p] = IdleFrame]
  /\ hist' = IF f.op # "limit" THEN h
             ELSE [h EXCEPT
                    !.issued = @ \cup {resp.reset},
                    !.admitted = IF resp.success
                                 THEN Put(@, f.life, 1 + (IF f.life \in DOMAIN @ THEN @[f.life] ELSE 0))
                                 ELSE @]

\* The call of task p goes on to its next store command.
Goto(p, f, label, h) ==
  /\ pc' = [pc EXCEPT ![p] = label]
  /\ frame' = [frame EXCEPT ![p] = f]
  /\ done' = NoCall
  /\ hist' = h

\* ------------------------------------------------------- RateLimit.limit
\* The synchronous head of limit(id): the key, `now`, the local fast path.
LimitFor(p, id) ==
    LET i == p
        key == Key(id)
        now == clock
        cacheResult == IsBlocked(localCache[i], key, clock)
        f == [IdleFrame EXCEPT
                !.op = "limit", !.inst = i, !.key = key, !.now = now,
                !.expired = /\ key \notin DOMAIN redis
                            /\ hist.lives > 0 /\ hist.resets = 0,
                !.soon = /\ done.op = "limit" /\ done.key = key
                         /\ done.incremented
                         /\ now - done.now < limiter.difference,
                !.afterReset = /\ done.op = "reset" /\ done.path = "reset"
                               /\ done.inst = i /\ done.key = key,
                !.resetBy = IF /\ done.op = "reset" /\ done.path = "reset"
                               /\ done.key = key
                            THEN done.inst ELSE 0,
                !.first = key \notin hist.seen]
        h == [hist EXCEPT !.limits = @ + 1,
                          !.firstNow = IF hist.limits = 0 THEN now ELSE @,
                          !.seen = @ \cup {key}]
    IN /\ pc[p] = "idle"
       /\ UNCHANGED <<limiter, redis, clock, faults>>
       /\ IF limiter.ephemeralCache /\ cacheResult.blocked
          THEN /\ localCache' = [localCache EXCEPT ![i] = cacheResult.cache]
               /\ Complete(p, f, "fast",
                     CreateErrorResponse(i, "Too many requests.", key, -2,
                                         {cacheResult.reset - now}, {}), h)
          ELSE /\ localCache' = IF limiter.ephemeralCache
                                THEN [localCache EXCEPT ![i] = cacheResult.cache]
                                ELSE localCache
               /\ Goto(p, f, IF limiter.difference # 0 THEN "get" ELSE "multi", h)

Limit(p) == \E id \in Ids : LimitFor(p, id)

\* A store command of the call of task p fails (connection or command error).
Fault(p, label) ==
  /\ pc[p] = label
  /\ faults < MaxFaults
  /\ faults' = faults + 1

\* The inner catch: the logger, then the "difference" error response.
DifferenceError(p) ==
  LET f == [frame[p] EXCEPT !.fault = TRUE, !.logged = TRUE]
  IN Complete(p, f, "differenceError",
       CreateErrorResponse(f.inst, "Failed to check difference between requests.",
                           f.key, -1, {}, {}), hist)

\* The outer catch: the logger, then the error response.
LimitError(p) ==
  LET f == [frame[p] EXCEPT !.fault = TRUE, !.logged = TRUE]
  IN Complete(p, f, "limitError",
       CreateErrorResponse(f.inst, "Failed to rate limit request", f.key, -1, {}, {}),
       hist)

\* redis.get(differenceKey) and the test of the cooldown.
GetLast(p) ==
  LET lastRequestTimestamp == RedisGet(redis, DifferenceKey(frame[p].key))
      f == [frame[p] EXCEPT !.last = lastRequestTimestamp]
  IN /\ pc[p] = "get"
     /\ UNCHANGED <<limiter, redis, localCache, clock, faults>>
     /\ Goto(p, f, IF TooSoon(lastRequestTimestamp, f.now) THEN "infoGet" ELSE "multi", hist)

\* A faulty inner catch: the failed read is taken for "no earlier request"
\* and the call goes on to the transaction.
GetLastFailOpen(p) ==
  /\ Fault(p, "get")
  /\ UNCHANGED <<limiter, redis, localCache, clock>>
  /\ Goto(p, [frame[p] EXCEPT !.fault = TRUE], "multi", hist)

GetLastFail(p) ==
  /\ Fault(p, "get")
  /\ UNCHANGED <<limiter, redis, localCache, clock>>
  /\ DifferenceError(p)

\* getKeyInfo: parseInt(await redis.get(key)) || 0
KeyInfoGet(p) ==
  LET got == RedisGet(redis, frame[p].key)
      f == [frame[p] EXCEPT !.current = IF got.nil THEN 0 ELSE got.val]
  IN /\ pc[p] = "infoGet"
     /\ UNCHANGED <<limiter, redis, localCache, clock, faults>>
     /\ Goto(p, f, "infoTtl", hist)

KeyInfoGetFail(p) ==
  /\ Fault(p, "infoGet")
  /\ UNCHANGED <<limiter, redis, localCache, clock>>
  /\ DifferenceError(p)

\* getKeyInfo -> getRemainingAndTTL, then the cooldown rejection.
KeyInfoTtl(p) ==
  LET f == frame[p]
      ttl == RedisPttl(redis, f.key, clock)
  IN /\ pc[p] = "infoTtl"
     /\ UNCHANGED <<limiter, redis, localCache, clock, faults>>
     /\ Complete(p, f, "cooldown",
          CreateErrorResponse(f.inst, "Request too soon after the last one.",
                              f.key, -3, {ttl}, {Remaining(f.current)}),
          [hist EXCEPT !.cooled = TRUE])

KeyInfoTtlFail(p) ==
  /\ Fault(p, "infoTtl")
  /\ UNCHANGED <<limiter, redis, localCache, clock>>
  /\ DifferenceError(p)

\* A faulty admission step: the INCR alone, the write of the cooldown record
\* left to later commands.
MultiExecIncrOnly(db, key, now, t, life) == RedisIncr(db, key, life)

\* The transaction: INCR key; SET differenceKey now; PEXPIRE differenceKey.
MultiExec(db, key, now, t, life) ==
  RedisPExpire(RedisSet(RedisIncr(db, key, life), DifferenceKey(key), now),
               DifferenceKey(key), limiter.difference, t)

\* A faulty admission step: the count is read with a GET before the
\* transaction, so two callers can be handed the same count.
MultiStale(p) ==
  LET key == frame[p].key
      now == frame[p].now
      db == MultiExec(redis, key, now, clock, hist.lives + 1)
      current == IF key \in DOMAIN redis THEN redis[key].val ELSE 1
      f == [frame[p] EXCEPT !.current = current, !.life = db[key].life,
                            !.incremented = TRUE]
      h == [hist EXCEPT !.lives = IF key \in DOMAIN redis THEN @ ELSE @ + 1]
  IN /\ pc[p] = "multi"
     /\ redis' = db
     /\ UNCHANGED <<limiter, localCache, clock, faults>>
     /\ Goto(p, f, IF FirstIncrement(current) THEN "pexpire" ELSE "pttl", h)

\* exec() of the transaction; its callback sends PEXPIRE key when current is 1.
Multi(p) ==
  LET key == frame[p].key
      now == frame[p].now
      db == MultiExec(redis, key, now, clock, hist.lives + 1)
      current == db[key].val
      f == [frame[p] EXCEPT !.current = current, !.life = db[key].life,
                            !.incremented = TRUE]
      h == [hist EXCEPT
              !.lives = IF key \in DOMAIN redis THEN @ ELSE @ + 1,
              !.tooClose = @ \/ \E q \in Tasks \ {p} :
                                  /\ frame[q].incremented
                                  /\ now - frame[q].now < limiter.difference
                                  /\ frame[q].now - now < limiter.difference]
  IN /\ pc[p] = "multi"
     /\ redis' = db
     /\ UNCHANGED <<limiter, localCache, clock, faults>>
     /\ Goto(p, f, IF FirstIncrement(current) THEN "pexpire" ELSE "pttl", h)

\* exec() resolves with a reply that holds no count: the INCR was answered
\* with an error of its own, the other commands of the transaction ran.
\* parseInt gives NaN, `current === undefined` is false, and limit goes on.
MultiNoCount(p) ==
  LET key == frame[p].key
      f == [frame[p] EXCEPT !.current = NaN, !.fault = TRUE]
  IN /\ Fault(p, "multi")
     /\ redis' = RedisPExpire(RedisSet(redis, DifferenceKey(key), f.now),
                              DifferenceKey(key), limiter.difference, clock)
     /\ UNCHANGED <<limiter, localCache, clock>>
     /\ Goto(p, f, "pttl", hist)

MultiFail(p) ==
  /\ Fault(p, "multi")
  /\ UNCHANGED <<limiter, redis, localCache, clock>>
  /\ LimitError(p)

\* this.redis.pexpire(key, this.window), sent by the callback and not awaited.
PExpire(p) ==
  LET key == frame[p].key
      db == RedisPExpire(redis, key, limiter.window, clock)
      later == /\ key \in DOMAIN redis /\ key \in DOMAIN db
               /\ redis[key].exp # -1 /\ db[key].exp > redis[key].exp
  IN /\ pc[p] = "pexpire"
     /\ redis' = db
     /\ UNCHANGED <<limiter, localCache, clock, faults>>
     /\ Goto(p, frame[p], "pttl", [hist EXCEPT !.extended = @ \/ later])

\* The promise of the PEXPIRE is dropped: its failure reaches nobody.
PExpireFail(p) ==
  /\ Fault(p, "pexpire")
  /\ UNCHANGED <<limiter, redis, localCache, clock>>
  /\ Goto(p, [frame[p] EXCEPT !.fault = TRUE], "pttl", hist)

\* getRemainingAndTTL(key, current): the store answers the PTTL. When the
\* continuation writes nothing (no block to record), the call returns with
\* the store's reply; a block is recorded in a step of its own.
Pttl(p) ==
  LET f == [frame[p] EXCEPT !.ttl = RedisPttl(redis, frame[p].key, clock)]
      success == Success(f.current)
  IN /\ pc[p] = "pttl"
     /\ UNCHANGED <<limiter, redis, localCache, clock, faults>>
     /\ IF ~success /\ limiter.ephemeralCache
        THEN Goto(p, f, "block", hist)
        ELSE Complete(p, f, "limit",
               CreateLimitResponse(f.inst, success, Remaining(f.current), f.ttl, f.key),
               hist)

PttlFail(p) ==
  /\ Fault(p, "pttl")
  /\ UNCHANGED <<limiter, redis, localCache, clock>>
  /\ LimitError(p)

\* The continuation after the PTTL of a call over the limit, with a cache:
\* this.localCache.blockUntil(key, now + ttl), then the error response.
Block(p) ==
  LET f == frame[p]
  IN /\ pc[p] = "block"
     /\ UNCHANGED <<limiter, redis, clock, faults>>
     /\ localCache' = [localCache EXCEPT
                        ![f.inst] = BlockUntil(@, f.key, f.now + f.ttl)]
     /\ Complete(p, f, "blocked",
          CreateErrorResponse(f.inst, "Too many requests.", f.key, -2, {f.ttl}, {}),
          hist)

\* ------------------------------------------------------- RateLimit.reset
\* reset is private: it is reached through the `reset` of a returned response.
Reset(p) ==
  \E fn \in hist.issued :
    LET f == [IdleFrame EXCEPT
                !.op = "reset", !.inst = fn.inst, !.key = fn.key, !.now = clock,
                !.afterReset = /\ done.op = "reset" /\ done.path = "reset"
                               /\ done.inst = fn.inst /\ done.key = fn.key]
    IN /\ pc[p] = "idle"
       /\ UNCHANGED <<limiter, redis, localCache, clock, faults>>
       /\ Goto(p, f, "del", [hist EXCEPT !.resets = @ + 1])

\* await this.redis.del(key); without a cache the reset returns with the reply.
ResetDel(p) ==
  /\ pc[p] = "del"
  /\ redis' = RedisDel(redis, frame[p].key)
  /\ UNCHANGED <<limiter, localCache, clock, faults>>
  /\ IF limiter.ephemeralCache
     THEN Goto(p, frame[p], "pop", hist)
     ELSE Complete(p, frame[p], "reset", [key |-> frame[p].key], hist)

\* A faulty catch of reset: the blocklist entry is evicted all the same.
ResetDelFailPops(p) ==
  /\ Fault(p, "del")
  /\ localCache' = [localCache EXCEPT ![frame[p].inst] = Pop(@, frame[p].key)]
  /\ UNCHANGED <<limiter, redis, clock>>
  /\ Complete(p, [frame[p] EXCEPT !.fault = TRUE, !.logged = TRUE], "resetError",
              [key |-> frame[p].key], hist)

\* The catch of reset: the logger, and nothing else.
ResetDelFail(p) ==
  /\ Fault(p, "del")
  /\ UNCHANGED <<limiter, redis, localCache, clock>>
  /\ Complete(p, [frame[p] EXCEPT !.fault = TRUE, !.logged = TRUE], "resetError",
              [key |-> frame[p].key], hist)

\* The continuation after the DEL: this.localCache.pop(key)
ResetPop(p) ==
  /\ pc[p] = "pop"
  /\ localCache' = [localCache EXCEPT ![frame[p].inst] = Pop(@, frame[p].key)]
  /\ UNCHANGED <<limiter, redis, clock, faults>>
  /\ Complete(p, frame[p], "reset", [key |-> frame[p].key], hist)

\* ------------------------------------------------------------------- time
\* A millisecond passes; the keys whose expiry instant is behind are gone.
Tick ==
  /\ clock < StartTime + MaxTicks
  /\ clock' = clock + 1
  /\ redis' = Expire(redis, clock + 1)
  /\ done' = NoCall
  /\ UNCHANGED <<limiter, localCache, pc, frame, hist, faults>>

\* The tasks are interchangeable (same configuration, same empty cache):
\* the first call of a behaviour is taken to be task 1's.
Call(p) ==
  /\ Started < MaxCalls
  /\ Started = 0 => p = 1
  /\ (Limit(p) \/ Reset(p))

Continue(p) ==
  \/ GetLast(p) \/ GetLastFail(p)
  \/ KeyInfoGet(p) \/ KeyInfoGetFail(p) \/ KeyInfoTtl(p) \/ KeyInfoTtlFail(p)
  \/ Multi(p) \/ MultiNoCount(p) \/ MultiFail(p) \/ PExpire(p) \/ PExpireFail(p)
  \/ Pttl(p) \/ PttlFail(p) \/ Block(p)
  \/ ResetDel(p) \/ ResetDelFail(p) \/ ResetPop(p)

\* Time passes while calls may overlap.
Pass == clock < StartTime + MaxOverlapTicks /\ Tick

Next ==
  \/ Pass
  \/ \E p \in Tasks : Call(p)
  \/ \E p \in Tasks : Continue(p)

Spec == Init /\ [][Next]_vars

\* One call at a time: a call starts only when no other call is in flight.
Sequential == Cardinality({p \in Tasks : pc[p] # "idle"}) <= 1

SeqNext ==
  \/ Tick
  \/ \E p \in Tasks : (\A q \in Tasks : pc[q] = "idle") /\ Call(p)
  \/ \E p \in Tasks : Continue(p)

SeqSpec == Init /\ [][SeqNext]_vars

\* ------------------------------------------------ races with a reset
\* One more call, for a limiter without cooldown and without local cache on a
\* healthy store: long enough for a reset and a new first increment to run
\* while a call that got count 1 has not yet sent its PEXPIRE.
RaceInit == Init /\ limiter.difference = 0 /\ ~limiter.ephemeralCache

RaceCall(p) ==
  /\ Started < MaxRaceCalls
  /\ Started = 0 => p = 1
  /\ (Limit(p) \/ Reset(p))

RaceNext ==
  \/ Tick
  \/ \E p \in Tasks : RaceCall(p)
  \/ \E p \in Tasks : Multi(p) \/ PExpire(p) \/ Pttl(p) \/ ResetDel(p)

RaceSpec == RaceInit /\ [][RaceNext]_vars

\* The same four calls for limiters with the local cache: long enough for a
\* check to meet the block that an earlier check recorded.
BlockInit == Init /\ limiter.difference = 0 /\ limiter.ephemeralCache

BlockNext ==
  \/ Tick
  \/ \E p \in Tasks : RaceCall(p)
  \/ \E p \in Tasks : \/ Multi(p) \/ PExpire(p) \/ Pttl(p) \/ Block(p)
                       \/ ResetDel(p) \/ ResetPop(p)

BlockSpec == BlockInit /\ [][BlockNext]_vars

\* ------------------------------------------------------ two identifiers
\* One call at a time on a healthy store, for the identifiers "A" and
\* "A:last" under the one prefix.
KeyIds == {<<"A">>, <<"A", "last">>}

KeyCall(p) ==
  /\ Started < MaxCalls
  /\ Started = 0 => p = 1
  /\ ((\E id \in KeyIds : LimitFor(p, id)) \/ Reset(p))

KeyNext ==
  \/ Tick
  \/ \E p \in Tasks : (\A q \in Tasks : pc[q] = "idle") /\ KeyCall(p)
  \/ \E p \in Tasks : \/ GetLast(p) \/ KeyInfoGet(p) \/ KeyInfoTtl(p)
                       \/ Multi(p) \/ PExpire(p) \/ Pttl(p) \/ Block(p)
                       \/ ResetDel(p) \/ ResetPop(p)

KeySpec == Init /\ [][KeyNext]_vars

\* ---------------------------------------------------------- construction
\* The constructor alone, over every shape of configuration: each of window,
\* limit and difference omitted, negative, zero or positive, the cache
\* option omitted, true or false.
CtorValues == -1..(MaxWindow + 1)

CtorConfigs ==
  { numbers @@ cache :
      numbers \in UNION { [fields -> CtorValues] :
                            fields \in SUBSET {"window", "limit", "difference"} },
      cache \in { EmptyMap, [ephemeralCache |-> TRUE], [ephemeralCache |-> FALSE] } }

\* The fields of an instance before its constructor has run.
Unbuilt ==
  [window |-> 0, difference |-> 0, maxRequest |-> 0, ephemeralCache |-> FALSE]

CtorInit ==
  /\ limiter = Unbuilt
  /\ redis = EmptyMap
  /\ localCache = [i \in Instances |-> EmptyMap]
  /\ clock = StartTime
  /\ pc = [p \in Tasks |-> "idle"]
  /\ frame = [p \in Tasks |-> IdleFrame]
  /\ done \in {[op |-> "config", config |-> c] : c \in CtorConfigs}
  /\ hist = [limits |-> 0, resets |-> 0]
  /\ faults = 0

\* new RateLimit(config)
New ==
  /\ done.op = "config"
  /\ limiter' = Constructor(done.config)
  /\ done' = [done EXCEPT !.op = "new"]
  /\ UNCHANGED <<redis, localCache, clock, pc, frame, hist, faults>>

CtorNext == New

CtorSpec == CtorInit /\ [][CtorNext]_vars

\* ------------------------------------------------------ the Cache alone
\* isBlocked over every blocklist of two keys whose timestamps are absent,
\* zero, behind the clock, equal to it or ahead of it.
CacheKeys == {Key(<<"A">>), Key(<<"B">>)}

CacheTimes == 0..(StartTime + 1)

CacheMaps == UNION { [keys -> CacheTimes] : keys \in SUBSET CacheKeys }

CacheInit ==
  /\ limiter = Unbuilt
  /\ redis = EmptyMap
  /\ localCache \in { [i \in Instances |-> IF i = 1 THEN c ELSE EmptyMap] : c \in CacheMaps }
  /\ clock = StartTime
  /\ pc = [p \in Tasks |-> "idle"]
  /\ frame = [p \in Tasks |-> IdleFrame]
  /\ done = [op |-> "cache"]
  /\ hist = [limits |-> 0, resets |-> 0]
  /\ faults = 0

\* this.localCache.isBlocked(identifier) on the cache of instance 1
CacheIsBlocked ==
  \E identifier \in CacheKeys :
    LET result == IsBlocked(localCache[1], identifier, clock)
    IN /\ localCache' = [localCache EXCEPT ![1] = result.cache]
       /\ done' = [op |-> "isBlocked", identifier |-> identifier,
                   before |-> localCache[1],
                   blocked |-> result.blocked, reset |-> result.reset]
       /\ UNCHANGED <<limiter, redis, clock, pc, frame, hist, faults>>

CacheNext == CacheIsBlocked

CacheSpec == CacheInit /\ [][CacheNext]_vars

\* ------------------------------------------------------------------ claims
IsLimit == done.op = "limit"

\* C1: under any interleaving of the limit calls of all instances, the calls
\* admitted (success = true) with an increment in one counter record, from
\* its creation to its expiry or reset, number at most `limit`.
C1_AtMostLimitAdmitted ==
  \A life \in DOMAIN hist.admitted : hist.admitted[life] <= limiter.maxRequest

\* A call is admitted with the last count within the limit while a concurrent
\* call of the other instance holds a count of the same record over the limit.
C1_Witness ==
  /\ IsLimit /\ done.resp.success /\ done.current = limiter.maxRequest
  /\ \E p \in Tasks : /\ pc[p] \in {"pttl", "block"}
                      /\ frame[p].life = done.life
                      /\ frame[p].current > limiter.maxRequest

\* C2, as stated: with a healthy store and no reset, of limit+1 calls made in
\* sequence within windowMs of the first, the first `limit` are admitted and
\* the (limit+1)-th is rejected with remaining = 0.
C2_Original ==
  (/\ IsLimit /\ faults = 0 /\ hist.resets = 0
   /\ done.now - hist.firstNow < limiter.window)
  => /\ hist.limits <= limiter.maxRequest => done.resp.success
     /\ hist.limits = limiter.maxRequest + 1
          => ~done.resp.success /\ done.resp.remaining = 0

\* C2, amended: the same when no call of the sequence is rejected for
\* cooldown and the increment of the (limit+1)-th call reaches the store
\* before the counter record created by the first call has expired.
C2_Amended ==
  (/\ IsLimit /\ faults = 0 /\ hist.resets = 0
   /\ done.now - hist.firstNow < limiter.window
   /\ ~hist.cooled)
  => /\ hist.limits <= limiter.maxRequest => done.resp.success
     /\ (hist.limits = limiter.maxRequest + 1 /\ done.life = 1)
          => ~done.resp.success /\ done.resp.remaining = 0

\* The (limit+1)-th call of such a sequence, with a cooldown configured, is
\* rejected for quota.
C2_Witness ==
  /\ IsLimit /\ faults = 0 /\ hist.resets = 0 /\ ~hist.cooled
  /\ done.now - hist.firstNow < limiter.window
  /\ limiter.difference > 0
  /\ hist.limits = limiter.maxRequest + 1 /\ done.life = 1
  /\ ~done.resp.success /\ done.resp.remaining = 0

\* C3: a limit call one of whose store commands failed returns a rejection
\* that carries a non-empty error.
C3_FailsClosed ==
  (IsLimit /\ done.fault)
  => /\ ~done.resp.success
     /\ "error" \in DOMAIN done.resp
     /\ done.resp.error # ""

\* The key of the call that task p has just started.
StartedKey(p) == IF pc[p] # "idle" THEN frame[p].key ELSE done.key

\* Task p starts a call of limit in this step.
StartsLimit(p) ==
  /\ pc[p] = "idle"
  /\ hist'.limits = hist.limits + 1
  /\ pc'[p] # "idle" \/ (done'.op = "limit" /\ done'.inst = p)

\* C4: with the local cache enabled, a limit call that starts while the
\* blocklist of its instance holds an entry for its key with resetAt after
\* now returns in that step a rejection with ttl = resetAt - now, and the
\* store is left as it was.
C4_FastPathLeavesStore ==
  [][\A p \in Tasks, id \in Ids :
       (/\ StartsLimit(p)
        /\ StartedKey(p)' = Key(id)
        /\ limiter.ephemeralCache
        /\ Key(id) \in DOMAIN localCache[p]
        /\ localCache[p][Key(id)] > clock)
       => /\ done'.op = "limit" /\ done'.inst = p /\ done'.path = "fast"
          /\ ~done'.resp.success
          /\ done'.resp.ttl = localCache[p][Key(id)] - clock
          /\ redis' = redis]_vars

C4_Witness ==
  /\ IsLimit /\ done.path = "fast" /\ done.resp.ttl > 0
  /\ done.key \in DOMAIN redis

\* C5, as stated: with a healthy store, a limit call that starts right after
\* a call that ran the transaction, less than `difference` after it, is
\* rejected for cooldown.
C5_Original ==
  (IsLimit /\ done.soon /\ faults = 0)
  => done.path = "cooldown" /\ done.resp.statusCode = -3

\* The call of task p is at one of the reads of the cooldown check.
InCooldownCheck(p) == pc[p] \in {"get", "infoGet", "infoTtl"}

\* C5, amended: such a call is rejected: by the local fast path when the
\* blocklist holds a live entry, and otherwise for cooldown when the cooldown
\* record is still present at its read; and no step of the cooldown check
\* changes the store.
C5_Amended ==
  /\ [](  (IsLimit /\ done.soon /\ faults = 0 /\ done.path # "fast")
          => (~done.last.nil
                => /\ done.path = "cooldown" /\ done.resp.statusCode = -3
                   /\ ~done.incremented) )
  /\ [][\A p \in Tasks :
          (InCooldownCheck(p) /\ pc'[p] # pc[p]) => redis' = redis]_vars

C5_Witness ==
  /\ IsLimit /\ done.soon /\ faults = 0
  /\ done.path = "cooldown" /\ ~done.last.nil
  /\ done.key \in DOMAIN redis

\* C6: no two concurrent limit calls whose `now` differ by less than
\* `difference` both pass the cooldown check and run the transaction.
C6_MinimumInterval == ~hist.tooClose

\* C7: with a healthy store, a limit call that starts right after a reset of
\* its key on its instance returned is admitted with count 1 and
\* remaining = limit - 1.
C7_FreshAfterReset ==
  (IsLimit /\ done.afterReset /\ ~done.fault)
  => /\ done.resp.success
     /\ done.current = 1
     /\ done.resp.remaining = limiter.maxRequest - 1

\* C8: when a reset returns with a healthy store, the store holds neither
\* the counter record nor (with a cooldown configured) the `<key>:last`
\* record, and the blocklist of the instance holds no entry for the key.
C8_ResetClears ==
  (done.op = "reset" /\ done.path = "reset")
  => /\ done.key \notin DOMAIN redis
     /\ limiter.difference > 0 => DifferenceKey(done.key) \notin DOMAIN redis
     /\ done.key \notin DOMAIN localCache[done.inst]

\* C9, as stated: with a healthy store, a limit call that starts once the
\* counter record has expired is admitted with count 1.
C9_Original ==
  (IsLimit /\ done.expired /\ ~done.fault)
  => done.resp.success /\ done.current = 1

\* C9, amended: such a call is admitted with count 1 unless it is rejected
\* for cooldown (a request less than cooldownMs earlier), whatever the
\* requests of the prior window and the local cache setting.
C9_Amended ==
  (IsLimit /\ done.expired /\ ~done.fault /\ done.path # "cooldown")
  => /\ done.resp.success /\ done.current = 1
     /\ done.resp.remaining = limiter.maxRequest - 1

\* With the cache enabled, the window before held a call rejected for quota.
C9_Witness ==
  /\ IsLimit /\ done.expired /\ ~done.fault /\ faults = 0
  /\ limiter.ephemeralCache /\ ~hist.cooled
  /\ hist.limits = limiter.maxRequest + 2
  /\ done.life = 2 /\ done.resp.success /\ done.current = 1

\* C10: a limit call that answers from the count `current` it read returns
\* success = (current <= limit) and remaining = max(limit - current, 0); an
\* admitted call that read count k returns remaining = limit - k; no
\* response carries a negative remaining (it is a number >= 0, or NaN when
\* the transaction gave no count).
C10_SuccessAndRemaining ==
  IsLimit =>
    /\ done.resp.remaining = NaN \/ done.resp.remaining >= 0
    /\ (done.path \in {"limit", "blocked"} /\ done.current # NaN)
         => /\ done.incremented
            /\ done.resp.success = (done.current <= limiter.maxRequest)
            /\ done.resp.remaining = Max(limiter.maxRequest - done.current, 0)
    /\ done.resp.success
         => /\ done.current \in 1..limiter.maxRequest
            /\ done.resp.remaining = limiter.maxRequest - done.current

\* A call over the limit answers without a cache: success = false, remaining 0.
C10_Witness ==
  /\ IsLimit /\ done.path = "limit" /\ ~done.resp.success
  /\ done.current = limiter.maxRequest + 1 /\ done.resp.remaining = 0

\* The call that has just returned was rejected because the count is over the
\* limit: by the count of a healthy store, or by the local fast path.
QuotaRejected ==
  /\ IsLimit
  /\ \/ done.path = "fast"
     \/ done.incremented /\ done.current > limiter.maxRequest /\ faults = 0

\* C11: a result rejected for quota has success = false and no error field,
\* with or without the local cache; a result rejected for cooldown has
\* success = false and an error that differs from those of the quota and
\* store-error rejections.
C11_OutcomeRepresentation ==
  /\ QuotaRejected => ~done.resp.success /\ "error" \notin DOMAIN done.resp
  /\ (IsLimit /\ done.path = "cooldown")
       => /\ ~done.resp.success
          /\ "error" \in DOMAIN done.resp
          /\ done.resp.error \notin
               { "", "Too many requests.", "Failed to rate limit request",
                 "Failed to rate limit request.",
                 "Failed to check difference between requests." }

\* C12: statusCode is 0 exactly when success is true (stated here for the
\* results of a healthy store), -1 for a store error, -2 for a quota
\* rejection and -3 for a cooldown rejection.
C12_StatusCodeClassifies ==
  IsLimit =>
    /\ faults = 0 => ((done.resp.statusCode = 0) <=> done.resp.success)
    /\ done.path \in {"differenceError", "limitError"} => done.resp.statusCode = -1
    /\ QuotaRejected => done.resp.statusCode = -2
    /\ done.path = "cooldown" => done.resp.statusCode = -3

\* C13: for a configuration whose difference is omitted, zero or positive,
\* after construction window >= 0 (1000 when omitted or negative, else
\* as configured), 0 <= difference <= window (the configured value, or the
\* window when configured larger) and limit >= 1 (5 when configured below 1).
C13_EffectiveConfig ==
  (/\ done.op = "new"
   /\ "difference" \in DOMAIN done.config => done.config.difference >= 0)
  =>
    LET c == done.config
        given(f) == f \in DOMAIN c
    IN /\ limiter.window >= 0
       /\ limiter.window = IF given("window") /\ c.window >= 0
                           THEN c.window ELSE DefaultWindow
       /\ 0 <= limiter.difference /\ limiter.difference <= limiter.window
       /\ (given("difference") /\ c.difference >= 0)
            => limiter.difference = IF c.difference > limiter.window
                                    THEN limiter.window ELSE c.difference
       /\ limiter.maxRequest >= 1
       /\ given("limit")
            => limiter.maxRequest = IF c.limit < 1 THEN FallbackLimit ELSE c.limit

\* The DEL of the reset of task p fails in this step.
ResetFails(p) == pc[p] = "del" /\ pc'[p] = "idle" /\ faults' = faults + 1

\* C14: when the DEL of a reset fails, the reset returns to its caller, the
\* failure has gone to the logger, and the store and the blocklists are as
\* they were before the failure.
C14_ResetFailureIsNoOp ==
  [][\A p \in Tasks :
       ResetFails(p)
       => /\ done'.op = "reset" /\ done'.path = "resetError" /\ done'.logged
          /\ redis' = redis
          /\ localCache' = localCache]_vars

\* A reset has failed while the counter record and a blocklist entry exist.
C14_Witness ==
  /\ done.op = "reset" /\ done.path = "resetError"
  /\ done.key \in DOMAIN redis
  /\ done.key \in DOMAIN localCache[done.inst]

\* C15: with calls made one after the other, a reset that returns leaves no
\* counter record and no blocklist entry; the steps of a reset of a key that
\* has neither change nothing and the reset returns without failure: so a
\* second reset in a row leaves the state the first one left.
C15_ResetIdempotent ==
  /\ []( (done.op = "reset" /\ done.path = "reset")
           => /\ done.key \notin DOMAIN redis
              /\ done.key \notin DOMAIN localCache[done.inst] )
  /\ [][\A p \in Tasks :
          (/\ pc[p] \in {"del", "pop"} /\ pc'[p] # pc[p] /\ faults' = faults
           /\ frame[p].key \notin DOMAIN redis
           /\ frame[p].key \notin DOMAIN localCache[frame[p].inst])
          => /\ redis' = redis /\ localCache' = localCache
             /\ pc'[p] = "idle" => done'.path = "reset"]_vars

\* The second of two resets in a row has returned.
C15_Witness ==
  /\ done.op = "reset" /\ done.path = "reset" /\ done.afterReset
  /\ done.key \notin DOMAIN redis

C17_NoImmortalRecord ==
  (\A p \in Tasks : pc[p] = "idle")
  => \A id \in Ids : Key(id) \in DOMAIN redis => redis[Key(id)].exp # -1

\* C18: every step that creates or increments a counter record is the
\* transaction of one call, and the same step leaves the cooldown record of
\* that call: `<key>:last` = its now, expiring `difference` later (no record
\* when difference is 0, an expiry of 0 removing it at once). No state of the
\* store shows the new count with the cooldown record of before.
C18_AtomicAdmission ==
  [][\A id \in Ids :
       LET key == Key(id)
           lastKey == DifferenceKey(key)
       IN (/\ key \in DOMAIN redis'
           /\ key \in DOMAIN redis => redis'[key].val > redis[key].val)
          => \E p \in Tasks :
               /\ pc[p] = "multi" /\ pc'[p] \in {"pexpire", "pttl"}
               /\ frame[p].key = key
               /\ IF limiter.difference > 0
                  THEN /\ lastKey \in DOMAIN redis'
                       /\ redis'[lastKey].val = frame[p].now
                       /\ redis'[lastKey].exp = clock + limiter.difference
                  ELSE lastKey \notin DOMAIN redis']_vars

\* A call is reading the cooldown record while another call, whose
\* transaction has just run, is still in flight: it sees that call's now.
C18_Witness ==
  \E p, q \in Tasks :
    /\ pc[p] \in {"get", "infoGet", "infoTtl"}
    /\ pc[q] \in {"pexpire", "pttl"} /\ frame[q].incremented
    /\ frame[q].key = frame[p].key
    /\ DifferenceKey(frame[q].key) \in DOMAIN redis
    /\ redis[DifferenceKey(frame[q].key)].val = frame[q].now
    /\ frame[q].current >= 2

\* C19: with the local cache enabled, when a call whose transaction returned
\* a count over the limit returns after reading the ttl, the blocklist of
\* its instance holds, for its key, its now + that ttl.
C19_BlockRecorded ==
  (/\ IsLimit /\ limiter.ephemeralCache /\ ~done.fault
   /\ done.incremented /\ done.current > limiter.maxRequest)
  => /\ done.path = "blocked"
     /\ done.key \in DOMAIN localCache[done.inst]
     /\ localCache[done.inst][done.key] = done.now + done.ttl

\* Such a call has returned after time passed between its start and its
\* reading of the ttl.
C19_Witness ==
  /\ IsLimit /\ limiter.ephemeralCache /\ done.path = "blocked"
  /\ done.current > limiter.maxRequest
  /\ done.ttl > 0 /\ clock > done.now
  /\ localCache[done.inst][done.key] = done.now + done.ttl

\* C20: a call whose transaction gave no usable count returns the store-error
\* rejection (statusCode -1, "Failed to rate limit request.") and writes
\* nothing to the blocklist; a blocklist entry is written only for a numeric
\* count over the limit.
C20_NoCountIsStoreError ==
  IsLimit =>
    /\ done.current = NaN
         => /\ ~done.resp.success
            /\ done.resp.statusCode = -1
            /\ "error" \in DOMAIN done.resp
            /\ done.resp.error = "Failed to rate limit request."
            /\ done.path # "blocked"
    /\ done.path = "blocked"
         => done.current # NaN /\ done.current > limiter.maxRequest

\* C21: with a cooldown configured, when the read of the cooldown record, or a
\* read made to build the cooldown rejection, fails, the call ends there: it
\* returns the store-error rejection (statusCode -1, success false), the
\* failure has gone to the logger, and the store is left as it was: no
\* increment of the counter, no write of the cooldown record.
C21_CooldownReadFailureAborts ==
  [][\A p \in Tasks :
       (pc[p] \in {"get", "infoGet", "infoTtl"} /\ faults' # faults /\ pc'[p] # pc[p])
         => /\ pc'[p] = "idle"
            /\ done'.op = "limit" /\ done'.key = frame[p].key
            /\ ~done'.resp.success /\ done'.resp.statusCode = -1
            /\ done'.resp.error = "Failed to check difference between requests."
            /\ done'.logged /\ ~done'.incremented
            /\ redis' = redis]_vars

\* The read of the counter made for a cooldown rejection failed: the cooldown
\* record had been read, the counter record is still there.
C21_Witness ==
  /\ IsLimit /\ done.path = "differenceError"
  /\ ~done.last.nil /\ limiter.difference > 0
  /\ done.logged /\ ~done.incremented
  /\ done.key \in DOMAIN redis /\ DifferenceKey(done.key) \in DOMAIN redis

\* C22: isBlocked(key) returns blocked = true with the stored timestamp if and
\* only if the key has an entry whose timestamp is strictly greater than the
\* current time; otherwise (no entry, timestamp equal to the current time or
\* behind it) it returns blocked = false and the key has no entry afterwards;
\* the entries of the other keys, and a live entry, are left as they were.
C22_IsBlockedStrictlyFuture ==
  done.op = "isBlocked" =>
    LET key == done.identifier
        before == done.before
        after == localCache[1]
        live == key \in DOMAIN before /\ before[key] > clock
    IN /\ done.blocked <=> live
       /\ done.blocked => done.reset = before[key] /\ after = before
       /\ ~done.blocked => key \notin DOMAIN after
       /\ \A other \in CacheKeys \ {key} :
            /\ other \in DOMAIN after <=> other \in DOMAIN before
            /\ other \in DOMAIN before => after[other] = before[other]

\* C23: no increment is lost or duplicated, whatever the interleaving of the
\* checks of one identifier (including checks that all passed the local fast
\* path before any increment): the value of a counter record changes only by
\* the increment step of one check, which adds exactly 1 (1 for a new record)
\* and hands that check the new value; so the value is the number of
\* increment steps run on the record and the counts handed out are 1..n. Two
\* checks in flight never hold the same count of one record, and none holds
\* a count above the record's value.
C23_NoLostOrDuplicateIncrement ==
  /\ [](\A p \in Tasks :
          frame[p].incremented =>
            /\ \A q \in Tasks \ {p} :
                 (frame[q].incremented /\ frame[q].key = frame[p].key
                    /\ frame[q].life = frame[p].life)
                   => frame[q].current # frame[p].current
            /\ frame[p].current >= 1
            /\ (frame[p].key \in DOMAIN redis /\ redis[frame[p].key].life = frame[p].life)
                 => frame[p].current <= redis[frame[p].key].val)
  /\ [][\A id \in Ids :
          LET key == Key(id)
              old == IF key \in DOMAIN redis THEN redis[key].val ELSE 0
              incremented == {p \in Tasks : /\ pc[p] = "multi" /\ pc'[p] # "multi"
                                            /\ frame[p].key = key
                                            /\ frame'[p].incremented}
          IN /\ (key \in DOMAIN redis' /\ redis'[key].val # old)
                  => Cardinality(incremented) = 1
             /\ \A p \in incremented :
                  /\ key \in DOMAIN redis' /\ redis'[key].val = old + 1
                  /\ frame'[p].current = old + 1
                  /\ frame'[p].life = redis'[key].life]_vars

\* Two checks of one identifier started in the same millisecond on a limiter
\* with the cache on, both past the fast path and both incremented: they
\* hold the counts 1 and 2 of one record whose value is 2.
C23_Witness ==
  /\ limiter.ephemeralCache
  /\ \A p \in Tasks : frame[p].op = "limit" /\ frame[p].incremented
  /\ frame[1].key = frame[2].key /\ frame[1].life = frame[2].life
  /\ frame[1].now = frame[2].now
  /\ {frame[1].current, frame[2].current} = {1, 2}
  /\ frame[1].key \in DOMAIN redis /\ redis[frame[1].key].val = 2

\* C24: in an execution without reset calls on a healthy store, whenever the
\* fast path of a limiter rejects a check for a key, the store holds at that
\* moment a counter record of the key whose count is over the limit.
C24_FastPathAgreesWithStore ==
  (IsLimit /\ done.path = "fast" /\ hist.resets = 0 /\ faults = 0)
    => /\ done.key \in DOMAIN redis
       /\ redis[done.key].val > limiter.maxRequest

\* C25: a reset that ran while a check of the same instance for the same key
\* was in flight has taken effect once both have returned (healthy store):
\* when the check returns with a block recorded and no call is in flight, the
\* blocklist of the instance holds a live entry for the key only if the
\* store holds a counter record of the key with count over the limit. (Every
\* response so far came from the instance of the check, so the reset was one
\* of that instance; a block is recorded only by a check whose increment
\* found the record of the first check, hence before the reset's delete.)
C25_ResetNotUndoneByCheck ==
  ( /\ IsLimit /\ done.path = "blocked"
    /\ hist.resets > 0 /\ faults = 0
    /\ \A fn \in hist.issued : fn.inst = done.inst
    /\ \A p \in Tasks : pc[p] = "idle" )
    => ( IsBlocked(localCache[done.inst], done.key, clock).blocked
           => /\ done.key \in DOMAIN redis
              /\ redis[done.key].val > limiter.maxRequest )

\* C26: with two instances sharing the store and the prefix, both with the
\* local cache, the check that starts right after a reset of its key has
\* returned on either instance is not rejected as over quota by the fast
\* path while the store holds no counter record of the key.
C26_ResetSeenByEveryInstance ==
  ( /\ IsLimit /\ done.resetBy # 0 /\ limiter.ephemeralCache
    /\ done.key \notin DOMAIN redis )
    => done.path # "fast"

\* C27: checks for distinct identifiers under one prefix do not interfere,
\* also when one identifier is the other followed by ":last": on a healthy
\* store the first check ever made for an identifier is admitted with count
\* 1, whatever calls were made before for the other identifier.
C27_IdentifiersIndependent ==
  (IsLimit /\ done.first /\ faults = 0)
    => /\ done.path = "limit" /\ done.resp.success
       /\ done.current = 1
       /\ done.resp.remaining = limiter.maxRequest - 1

\* C28: on a healthy store and with a positive window, the ttl of every
\* result of limit is a remaining time: ttl >= 0, and 0 < ttl <= window for
\* an admitted result, whatever the interleaving of the expiry of the
\* counter, the PEXPIRE and the PTTL (never the store's -1 or -2).
C28_TtlIsRemainingTime ==
  (IsLimit /\ faults = 0 /\ limiter.window > 0)
    => /\ done.resp.ttl >= 0
       /\ done.resp.success
            => done.resp.ttl > 0 /\ done.resp.ttl <= limiter.window
====
